---------------------------- MODULE Spec2Model ----------------------------
(***************************************************************************)
(* r53-find (src/src/index.js): enumerate every Route53 hosted zone and    *)
(* every record set of every zone, then search the record values for a     *)
(* target given on the command line.                                       *)
(*                                                                         *)
(* Representation of JavaScript values:                                    *)
(*   - a string that the program takes apart or compares (zone ids, record *)
(*     values, options.record) is a sequence of one-character strings;     *)
(*     names and type tokens, which the program only copies, are strings;  *)
(*   - a value that may be undefined is a set: {} is undefined, {v} is v;  *)
(*   - an object with identity (a HostedZone inside the Set) is a          *)
(*     reference, an index into heap.                                      *)
(***************************************************************************)
EXTENDS Integers, Sequences, FiniteSets, TLC

VARIABLES
    options,          \* line 12: the parsed command line, [match, record]
    account,          \* the Route53 account behind client: the entries its
                      \*   responses are made of, [zones, recordSets]
    pc,               \* where run() (lines 14-24) stands
    heap,             \* the HostedZone objects created so far, by reference
    hostedZones,      \* the Set<HostedZone>: references in insertion order
    marker,           \* _listHostedZones' parameter marker
    inflight,         \* the request client.send() is awaiting, if any
    zi,               \* position of the for-of loops over hostedZones.values()
    recordSets,       \* _getRecordSetsForZone's parameter recordSets
    startRecord,      \* _getRecordSetsForZone's parameter startRecord
    ri,               \* _findRecord: position in hostedZone.recordSets
    vi,               \* _findRecord: position in recordSet.ResourceRecords
    matchingRecords,  \* _findRecord's result array
    recordValue,      \* _evaluateRecord's argument at its last call
    verdict,          \* _evaluateRecord's result at its last call
    printed,          \* what _printResult was given, if it ran
    stream,           \* history: the request/response pairs of the pagination
                      \*   stream in progress (or just finished)
    apiCalls,         \* history: client.send() calls issued for that stream
    apiErrors,        \* history: number of client.send() calls that failed
    writes,           \* history: per zone object, assignments to .recordSets
    evaluations,      \* history: the _evaluateRecord calls of _findRecord
    rowSrc            \* history: per pushed row, its (zone, record set, value)

vars == << options, account, pc, heap, hostedZones, marker, inflight, zi,
           recordSets, startRecord, ri, vi, matchingRecords, recordValue,
           verdict, printed, stream, apiCalls, apiErrors, writes,
           evaluations, rowSrc >>

---------------------------------------------------------------------------
(* Bounds of the modelled account.                                         *)

\* pages a pagination stream (the zone list, one zone's record sets) may have
MaxPages == 2
\* zone entries the list-zones stream returns in total
MaxZones == 2
\* record sets the account returns in total, over all zones
MaxRecordSets == 3

---------------------------------------------------------------------------
(* Generic helpers.                                                        *)

The(S) == CHOOSE x \in S : TRUE

Range(s) == { s[i] : i \in 1..Len(s) }

SeqsUpTo(S, n) == UNION { [1..k -> S] : k \in 0..n }

RECURSIVE Flatten(_)
Flatten(ss) == IF ss = << >> THEN << >> ELSE Head(ss) \o Flatten(Tail(ss))

RECURSIVE SumSeq(_)
SumSeq(s) == IF s = << >> THEN 0 ELSE Head(s) + SumSeq(Tail(s))

---------------------------------------------------------------------------
(* The data the Route53 API may return.                                    *)

\* HostedZone entries as ListHostedZones delivers them
RawZones ==
    { [Id |-> << "/", "h", "/", "A" >>, Name |-> "a.example."],
      [Id |-> << "B" >>,                Name |-> "b.example."] }

\* opaque NextMarker tokens
Markers == { "m1", "m2" }

\* record values and DNS names
ValA    == << "a" >>
ValADot == << "a", "." >>
ValBA   == << "b", "a" >>

\* ResourceRecordSet entries as ListResourceRecordSets delivers them
RSAlias ==
    [Name |-> "alias.a.example.", Type |-> "A",
     AliasTarget |-> { [DNSName |-> ValADot] },
     ResourceRecords |-> { << [Value |-> ValA] >> }]
RSLiterals ==
    [Name |-> "lit.a.example.", Type |-> "CNAME",
     AliasTarget |-> {},
     ResourceRecords |-> { << [Value |-> ValA], [Value |-> ValBA],
                              [Value |-> ValADot] >> }]
RSNeither ==
    [Name |-> "none.a.example.", Type |-> "NS",
     AliasTarget |-> {},
     ResourceRecords |-> {}]
RecordSetEntries == { RSAlias, RSLiterals, RSNeither }

\* the account of the general run
Account == [zones |-> RawZones, recordSets |-> RecordSetEntries]

\* (NextRecordName, NextRecordType, NextRecordIdentifier) triples
NextTriples ==
    { [NextRecordName |-> {"n1"}, NextRecordType |-> {"A"},
       NextRecordIdentifier |-> {}],
      [NextRecordName |-> {"n2"}, NextRecordType |-> {"CNAME"},
       NextRecordIdentifier |-> {"w1"}] }
NoTriple ==
    [NextRecordName |-> {}, NextRecordType |-> {}, NextRecordIdentifier |-> {}]

---------------------------------------------------------------------------
(* Strings: String.prototype.split, Array.prototype.pop, template          *)
(* literals.                                                               *)

\* s.split(sep) for a one-character separator: the pieces between the
\* separators, empty pieces included ("/h/A" gives "", "h", "A")
RECURSIVE Split(_, _)
Split(s, sep) ==
    IF \E i \in 1..Len(s) : s[i] = sep
    THEN LET i == CHOOSE k \in 1..Len(s) :
                      s[k] = sep /\ \A j \in 1..(k - 1) : s[j] # sep
         IN  << SubSeq(s, 1, i - 1) >> \o Split(SubSeq(s, i + 1, Len(s)), sep)
    ELSE << s >>

\* array.pop(): the last element
Pop(array) == array[Len(array)]

\* (variant: the id is stored as it was delivered)
NormalizeIdKeepPath(id) == id

\* hostedZone.Id.split('/').pop()
NormalizeId(id) == Pop(Split(id, "/"))

\* `${record}.`
WithDot(record) == record \o << "." >>

---------------------------------------------------------------------------
(* new RegExp(pattern).test(string), for the part of the pattern syntax    *)
(* made of: literal characters, ".", "^", "$", "\" escapes (\d and         *)
(* identity escapes), classes "[a-bc]", groups "( )" and the greedy        *)
(* quantifiers "*", "+", "?", "{n}", "{n,}", "{n,m}".                      *)

\* the characters in use, in code-unit order
Alphabet ==
    << "$", "(", ")", "*", "+", ",", "-", ".", "/",
       "0", "1", "2", "3", "4", "5", "6", "7", "8", "9",
       "?", "A", "B", "Z", "[", "\\", "]", "^",
       "a", "b", "c", "d", "e", "l", "m", "o", "p", "x", "{", "}" >>

CharCode(c) == CHOOSE i \in 1..Len(Alphabet) : Alphabet[i] = c

IsDigit(c) == CharCode("0") <= CharCode(c) /\ CharCode(c) <= CharCode("9")

\* quantifier upper bound "no limit"
Unbounded == -1

\* DecimalDigits starting at p[i]: [val, pos]
RECURSIVE ParseNat(_, _, _)
ParseNat(p, i, acc) ==
    IF i <= Len(p) /\ IsDigit(p[i])
    THEN ParseNat(p, i + 1, 10 * acc + (CharCode(p[i]) - CharCode("0")))
    ELSE [val |-> acc, pos |-> i]

\* ClassRanges starting at p[i], up to the closing "]": [ranges, pos]
RECURSIVE ParseClass(_, _, _)
ParseClass(p, i, acc) ==
    IF p[i] = "]"
    THEN [ranges |-> acc, pos |-> i + 1]
    ELSE IF i + 2 <= Len(p) /\ p[i + 1] = "-" /\ p[i + 2] # "]"
         THEN ParseClass(p, i + 3, Append(acc, << p[i], p[i + 2] >>))
         ELSE ParseClass(p, i + 1, Append(acc, << p[i], p[i] >>))

\* a Quantifier at p[i], if there is one: [has, min, max, pos]
ParseQuantifier(p, i) ==
    IF i > Len(p) THEN [has |-> FALSE, min |-> 1, max |-> 1, pos |-> i]
    ELSE IF p[i] = "*" THEN [has |-> TRUE, min |-> 0, max |-> Unbounded, pos |-> i + 1]
    ELSE IF p[i] = "+" THEN [has |-> TRUE, min |-> 1, max |-> Unbounded, pos |-> i + 1]
    ELSE IF p[i] = "?" THEN [has |-> TRUE, min |-> 0, max |-> 1, pos |-> i + 1]
    ELSE IF p[i] = "{"
         THEN LET lo == ParseNat(p, i + 1, 0)
              IN  IF p[lo.pos] = "}"
                  THEN [has |-> TRUE, min |-> lo.val, max |-> lo.val,
                        pos |-> lo.pos + 1]
                  ELSE IF p[lo.pos + 1] = "}"
                       THEN [has |-> TRUE, min |-> lo.val, max |-> Unbounded,
                             pos |-> lo.pos + 2]
                       ELSE LET hi == ParseNat(p, lo.pos + 1, 0)
                            IN  [has |-> TRUE, min |-> lo.val, max |-> hi.val,
                                 pos |-> hi.pos + 1]
    ELSE [has |-> FALSE, min |-> 1, max |-> 1, pos |-> i]

RECURSIVE ParseTerms(_, _, _)
RECURSIVE ParseAtom(_, _)

\* an Assertion or Atom at p[i]: [node, pos]
ParseAtom(p, i) ==
    IF p[i] = "^" THEN [node |-> [kind |-> "bol"], pos |-> i + 1]
    ELSE IF p[i] = "$" THEN [node |-> [kind |-> "eol"], pos |-> i + 1]
    ELSE IF p[i] = "." THEN [node |-> [kind |-> "any"], pos |-> i + 1]
    ELSE IF p[i] = "\\"
         THEN IF p[i + 1] = "d"
              THEN [node |-> [kind |-> "class", ranges |-> << << "0", "9" >> >>],
                    pos |-> i + 2]
              ELSE [node |-> [kind |-> "char", c |-> p[i + 1]], pos |-> i + 2]
    ELSE IF p[i] = "["
         THEN LET cls == ParseClass(p, i + 1, << >>)
              IN  [node |-> [kind |-> "class", ranges |-> cls.ranges],
                   pos |-> cls.pos]
    ELSE IF p[i] = "("
         THEN LET inner == ParseTerms(p, i + 1, << >>)
              IN  [node |-> [kind |-> "group", body |-> inner.nodes],
                   pos |-> inner.pos + 1]
    ELSE [node |-> [kind |-> "char", c |-> p[i]], pos |-> i + 1]

\* the Terms from p[i] to the end of the pattern or the closing ")"
ParseTerms(p, i, acc) ==
    IF i > Len(p) \/ p[i] = ")"
    THEN [nodes |-> acc, pos |-> i]
    ELSE LET a == ParseAtom(p, i)
             q == ParseQuantifier(p, a.pos)
             term == IF q.has
                     THEN [kind |-> "repeat", node |-> a.node,
                           min |-> q.min, max |-> q.max]
                     ELSE a.node
         IN  ParseTerms(p, q.pos, Append(acc, term))

\* new RegExp(pattern): the compiled pattern
RegExp(pattern) == ParseTerms(pattern, 1, << >>).nodes

RECURSIVE MatchNode(_, _, _)
RECURSIVE MatchSeq(_, _, _)
RECURSIVE MatchRepeat(_, _, _, _, _)

\* the positions at which a match of node that starts at s[i] can end
MatchNode(node, s, i) ==
    CASE node.kind = "bol"   -> IF i = 1 THEN {i} ELSE {}
      [] node.kind = "eol"   -> IF i = Len(s) + 1 THEN {i} ELSE {}
      [] node.kind = "any"   -> IF i <= Len(s) THEN {i + 1} ELSE {}
      [] node.kind = "char"  -> IF i <= Len(s) /\ s[i] = node.c THEN {i + 1} ELSE {}
      [] node.kind = "class" ->
            IF i <= Len(s)
               /\ \E k \in 1..Len(node.ranges) :
                     /\ CharCode(node.ranges[k][1]) <= CharCode(s[i])
                     /\ CharCode(s[i]) <= CharCode(node.ranges[k][2])
            THEN {i + 1} ELSE {}
      [] node.kind = "group"  -> MatchSeq(node.body, s, i)
      [] node.kind = "repeat" -> MatchRepeat(node.node, node.min, node.max, s, i)

\* ... of the terms one after the other
MatchSeq(nodes, s, i) ==
    IF nodes = << >> THEN {i}
    ELSE UNION { MatchSeq(Tail(nodes), s, j) : j \in MatchNode(Head(nodes), s, i) }

\* ... of between min and max repetitions of node
MatchRepeat(node, min, max, s, i) ==
    LET once == IF max = 0 THEN {} ELSE MatchNode(node, s, i)
        less(n) == IF n <= 0 THEN n ELSE n - 1
    IN  (IF min <= 0 \/ i \in once THEN {i} ELSE {})
        \cup UNION { MatchRepeat(node, less(min), less(max), s, j) :
                        j \in once \ {i} }

\* (variant: the pattern must match the whole string)
RegExpTestWhole(nodes, s) == (Len(s) + 1) \in MatchSeq(nodes, s, 1)

\* regexp.test(s): the pattern matches starting at some index 0..s.length
RegExpTest(nodes, s) ==
    \E start \in 1..(Len(s) + 1) : MatchSeq(nodes, s, start) # {}

---------------------------------------------------------------------------
(* The command line (lines 172-211, as far as the search reads it).        *)

\* --record a, and --record a$ --match regex
MatchOptions ==
    { [match |-> "equality", record |-> ValA],
      [match |-> "regex",    record |-> << "a", "$" >>] }

---------------------------------------------------------------------------
(* _listHostedZones (lines 34-48).                                         *)

\* the object a HostedZones entry becomes: a fresh object whose Id line 40
\* overwrites; recordSets is not set yet
NewZone(raw) ==
    [Id |-> NormalizeId(raw.Id), Name |-> raw.Name, recordSets |-> {}]

\* Set.prototype.add: objects are compared by reference
SetAdd(set, ref) == IF ref \in Range(set) THEN set ELSE Append(set, ref)

\* (variant: the loop stops one entry short)
RECURSIVE AddAllButLast(_, _)
AddAllButLast(set, refs) ==
    IF Len(refs) <= 1 THEN set
    ELSE AddAllButLast(SetAdd(set, Head(refs)), Tail(refs))

\* the loop of lines 39-42 over the objects of one response
RECURSIVE AddAll(_, _)
AddAll(set, refs) ==
    IF refs = << >> THEN set ELSE AddAll(SetAdd(set, Head(refs)), Tail(refs))

\* line 45: the marker of the recursive call
NextMarkerOf(response) == response.NextMarker

\* what ListHostedZones may answer
ZoneResponses ==
    { [HostedZones |-> zs, IsTruncated |-> t, NextMarker |-> nm] :
        zs \in SeqsUpTo(account.zones, MaxZones - Len(heap)),
        t  \in IF Len(stream) + 1 < MaxPages THEN BOOLEAN ELSE {FALSE},
        nm \in { {} } \cup { {m} : m \in Markers } }

\* a truncated response holds entries and names the next marker; a final
\* one need not
ZoneResponseOk(response) ==
    IF response.IsTruncated
    THEN response.NextMarker # {} /\ response.HostedZones # << >>
    ELSE response.NextMarker \in { {}, {"m1"} }

\* lines 35-38: client.send(new ListHostedZonesCommand({Marker: marker}))
ListHostedZonesSend ==
    /\ pc = "listHostedZones"
    /\ inflight = {}
    /\ inflight' = { [op |-> "ListHostedZones", params |-> [Marker |-> marker]] }
    /\ apiCalls' = apiCalls + 1
    /\ UNCHANGED << options, account, pc, heap, hostedZones, marker, zi,
                    recordSets, startRecord, ri, vi, matchingRecords,
                    recordValue, verdict, printed, stream, apiErrors, writes,
                    evaluations, rowSrc >>

\* (variant: the recursion is decided by the presence of NextMarker)
ListHostedZonesResponseByMarker ==
    /\ pc = "listHostedZones"
    /\ inflight # {}
    /\ \E response \in ZoneResponses :
          /\ ZoneResponseOk(response)
          /\ LET zones == [i \in 1..Len(response.HostedZones) |->
                              NewZone(response.HostedZones[i])]
                 refs  == [i \in 1..Len(zones) |-> Len(heap) + i]
             IN  /\ heap' = heap \o zones
                 /\ writes' = writes \o [i \in 1..Len(zones) |-> 0]
                 /\ hostedZones' = AddAll(hostedZones, refs)
          /\ stream' = Append(stream, [request  |-> The(inflight),
                                       response |-> response])
          /\ IF response.NextMarker # {}
             THEN /\ marker' = NextMarkerOf(response)
                  /\ pc' = "listHostedZones"
             ELSE /\ marker' = {}
                  /\ pc' = "getRecordSetsForZones"
    /\ inflight' = {}
    /\ UNCHANGED << options, account, zi, recordSets, startRecord, ri, vi,
                    matchingRecords, recordValue, verdict, printed, apiCalls,
                    apiErrors, evaluations, rowSrc >>

\* lines 38-47: the response arrives; its zones are normalized and added;
\* recurse with the next marker, or return the Set to run (line 16)
ListHostedZonesResponse ==
    /\ pc = "listHostedZones"
    /\ inflight # {}
    /\ \E response \in ZoneResponses :
          /\ ZoneResponseOk(response)
          /\ LET zones == [i \in 1..Len(response.HostedZones) |->
                              NewZone(response.HostedZones[i])]
                 refs  == [i \in 1..Len(zones) |-> Len(heap) + i]
             IN  /\ heap' = heap \o zones
                 /\ writes' = writes \o [i \in 1..Len(zones) |-> 0]
                 /\ hostedZones' = AddAll(hostedZones, refs)
          /\ stream' = Append(stream, [request  |-> The(inflight),
                                       response |-> response])
          /\ IF response.IsTruncated
             THEN /\ marker' = NextMarkerOf(response)
                  /\ pc' = "listHostedZones"
             ELSE /\ marker' = {}
                  /\ pc' = "getRecordSetsForZones"
    /\ inflight' = {}
    /\ UNCHANGED << options, account, zi, recordSets, startRecord, ri, vi,
                    matchingRecords, recordValue, verdict, printed, apiCalls,
                    apiErrors, evaluations, rowSrc >>

---------------------------------------------------------------------------
(* _getRecordSetsForZones (lines 55-59) and _getRecordSetsForZone (69-86). *)

\* the zone object the for-of loops stand at
CurrentRef == hostedZones[zi]
CurrentZone == heap[CurrentRef]

\* record sets received so far, attached or still being accumulated
RecordSetsReceived ==
    SumSeq([r \in 1..Len(heap) |->
               IF heap[r].recordSets = {} THEN 0
               ELSE Len(The(heap[r].recordSets))])
    + (IF pc = "getRecordSetsForZone" THEN Len(recordSets) ELSE 0)

\* what ListResourceRecordSets may answer
RecordSetResponses ==
    { [ResourceRecordSets |-> rs, IsTruncated |-> t, Next |-> nx] :
        rs \in SeqsUpTo(account.recordSets, MaxRecordSets - RecordSetsReceived),
        t  \in IF Len(stream) + 1 < MaxPages THEN BOOLEAN ELSE {FALSE},
        nx \in NextTriples \cup {NoTriple} }

\* a truncated response holds entries and names the next record; a final
\* one need not
RecordSetResponseOk(response) ==
    IF response.IsTruncated
    THEN response.Next \in NextTriples /\ response.ResourceRecordSets # << >>
    ELSE response.Next \in { NoTriple,
                             [NextRecordName |-> {"n1"}, NextRecordType |-> {"A"},
                              NextRecordIdentifier |-> {}] }

\* (variant: an item the array already holds is not added again)
RECURSIVE ConcatDistinct(_, _)
ConcatDistinct(array, items) ==
    IF items = << >> THEN array
    ELSE ConcatDistinct(IF Head(items) \in Range(array) THEN array
                        ELSE Append(array, Head(items)),
                        Tail(items))

\* line 77: recordSets.concat(response.ResourceRecordSets)
Concat(array, items) == array \o items

\* (variant: NextRecordIdentifier is not passed on)
StartRecordWithoutIdentifier(response) ==
    [name       |-> response.Next.NextRecordName,
     type       |-> response.Next.NextRecordType,
     identifier |-> {}]

\* lines 79-83: the startRecord of the recursive call
StartRecordOf(response) ==
    [name       |-> response.Next.NextRecordName,
     type       |-> response.Next.NextRecordType,
     identifier |-> response.Next.NextRecordIdentifier]

\* lines 70-75: the request parameters (startRecord?.name and so on)
RecordSetParams(hostedZone, start) ==
    [HostedZoneId          |-> hostedZone.Id,
     StartRecordName       |-> IF start = {} THEN {} ELSE The(start).name,
     StartRecordType       |-> IF start = {} THEN {} ELSE The(start).type,
     StartRecordIdentifier |-> IF start = {} THEN {} ELSE The(start).identifier]

\* (variant: the loop does not await _getRecordSetsForZone; the next zone
\* is started while the previous one is still being fetched)
GetRecordSetsForZonesNextUnawaited ==
    /\ pc \in {"getRecordSetsForZones", "getRecordSetsForZone"}
    /\ zi < Len(hostedZones)
    /\ zi' = zi + 1
    /\ recordSets' = << >>
    /\ startRecord' = {}
    /\ stream' = << >>
    /\ apiCalls' = 0
    /\ pc' = "getRecordSetsForZone"
    /\ UNCHANGED << options, account, heap, hostedZones, marker, inflight, ri,
                    vi, matchingRecords, recordValue, verdict, printed,
                    apiErrors, writes, evaluations, rowSrc >>

\* lines 56-57: the loop takes the next zone and calls
\* _getRecordSetsForZone(hostedZone) with its default parameters; a new
\* pagination stream begins
GetRecordSetsForZonesNext ==
    /\ pc = "getRecordSetsForZones"
    /\ zi < Len(hostedZones)
    /\ zi' = zi + 1
    /\ recordSets' = << >>
    /\ startRecord' = {}
    /\ stream' = << >>
    /\ apiCalls' = 0
    /\ pc' = "getRecordSetsForZone"
    /\ UNCHANGED << options, account, heap, hostedZones, marker, inflight, ri,
                    vi, matchingRecords, recordValue, verdict, printed,
                    apiErrors, writes, evaluations, rowSrc >>

\* lines 70-76: client.send(new ListResourceRecordSetsCommand(params))
ListResourceRecordSetsSend ==
    /\ pc = "getRecordSetsForZone"
    /\ inflight = {}
    /\ inflight' = { [op |-> "ListResourceRecordSets",
                      params |-> RecordSetParams(CurrentZone, startRecord)] }
    /\ apiCalls' = apiCalls + 1
    /\ UNCHANGED << options, account, pc, heap, hostedZones, marker, zi,
                    recordSets, startRecord, ri, vi, matchingRecords,
                    recordValue, verdict, printed, stream, apiErrors, writes,
                    evaluations, rowSrc >>

\* (variant: hostedZone.recordSets is assigned after every page)
ListResourceRecordSetsResponseEager ==
    /\ pc = "getRecordSetsForZone"
    /\ inflight # {}
    /\ \E response \in RecordSetResponses :
          /\ RecordSetResponseOk(response)
          /\ stream' = Append(stream, [request  |-> The(inflight),
                                       response |-> response])
          /\ LET all == Concat(recordSets, response.ResourceRecordSets)
             IN  /\ heap' = [heap EXCEPT ![CurrentRef].recordSets = { all }]
                 /\ writes' = [writes EXCEPT ![CurrentRef] = @ + 1]
                 /\ IF response.IsTruncated
                    THEN /\ recordSets' = all
                         /\ startRecord' = { StartRecordOf(response) }
                         /\ pc' = "getRecordSetsForZone"
                    ELSE /\ recordSets' = << >>
                         /\ startRecord' = {}
                         /\ pc' = "getRecordSetsForZones"
    /\ inflight' = {}
    /\ UNCHANGED << options, account, hostedZones, marker, zi, ri, vi,
                    matchingRecords, recordValue, verdict, printed, apiCalls,
                    apiErrors, evaluations, rowSrc >>

\* lines 76-85 and 57: the response arrives and is concatenated; recurse
\* from the next record, or return the array, which line 57 assigns to
\* hostedZone.recordSets (the parameters of the returned call are gone)
ListResourceRecordSetsResponse ==
    /\ pc = "getRecordSetsForZone"
    /\ inflight # {}
    /\ \E response \in RecordSetResponses :
          /\ RecordSetResponseOk(response)
          /\ stream' = Append(stream, [request  |-> The(inflight),
                                       response |-> response])
          /\ LET all == Concat(recordSets, response.ResourceRecordSets)
             IN  IF response.IsTruncated
                 THEN /\ recordSets' = all
                      /\ startRecord' = { StartRecordOf(response) }
                      /\ pc' = "getRecordSetsForZone"
                      /\ UNCHANGED << heap, writes >>
                 ELSE /\ recordSets' = << >>
                      /\ startRecord' = {}
                      /\ pc' = "getRecordSetsForZones"
                      /\ heap' = [heap EXCEPT ![CurrentRef].recordSets = { all }]
                      /\ writes' = [writes EXCEPT ![CurrentRef] = @ + 1]
    /\ inflight' = {}
    /\ UNCHANGED << options, account, hostedZones, marker, zi, ri, vi,
                    matchingRecords, recordValue, verdict, printed, apiCalls,
                    apiErrors, evaluations, rowSrc >>

\* (variant: the rejection is caught and the call made again)
ApiErrorRetried ==
    /\ inflight # {}
    /\ inflight' = {}
    /\ apiErrors' = apiErrors + 1
    /\ UNCHANGED << options, account, pc, heap, hostedZones, marker, zi,
                    recordSets, startRecord, ri, vi, matchingRecords,
                    recordValue, verdict, printed, stream, apiCalls, writes,
                    evaluations, rowSrc >>

\* lines 38 and 76: client.send() rejects; no function of the program
\* catches, so the exception ends run() (lines 14-24)
ApiError ==
    /\ inflight # {}
    /\ inflight' = {}
    /\ apiErrors' = apiErrors + 1
    /\ pc' = "rejected"
    /\ UNCHANGED << options, account, heap, hostedZones, marker, zi,
                    recordSets, startRecord, ri, vi, matchingRecords,
                    recordValue, verdict, printed, stream, apiCalls, writes,
                    evaluations, rowSrc >>

---------------------------------------------------------------------------
(* _findRecord (lines 88-129).                                             *)

\* (variant: the value is also tried with a "." appended)
_evaluateRecordBothWays(value) ==
    IF options.match = "regex"
    THEN RegExpTest(RegExp(options.record), value)
    ELSE \/ value = WithDot(options.record)
         \/ value = options.record
         \/ WithDot(value) = options.record

\* lines 113-118
_evaluateRecord(value) ==
    IF options.match = "regex"
    THEN RegExpTest(RegExp(options.record), value)
    ELSE value = WithDot(options.record) \/ value = options.record

\* (variant: the row names the first zone of the Set)
_createResultEntryFirstZone(hostedZone, recordType, recordName, value) ==
    [hostedZoneId   |-> heap[hostedZones[1]].Id,
     hostedZoneName |-> heap[hostedZones[1]].Name,
     recordType     |-> recordType,
     recordName     |-> recordName,
     recordValue    |-> value]

\* lines 120-128
_createResultEntry(hostedZone, recordType, recordName, value) ==
    [hostedZoneId   |-> hostedZone.Id,
     hostedZoneName |-> hostedZone.Name,
     recordType     |-> recordType,
     recordName     |-> recordName,
     recordValue    |-> value]

\* (variant: Array.prototype.unshift)
Unshift(array, item) == << item >> \o array

\* Array.prototype.push
Push(array, item) == Append(array, item)

\* (variant: ResourceRecords is looked at before AliasTarget)
BranchLiteralsFirst(recordSet) ==
    IF recordSet.ResourceRecords # {} THEN "literals"
    ELSE IF recordSet.AliasTarget # {} THEN "alias"
    ELSE "neither"

\* lines 92, 98, 106: which branch a record set takes
Branch(recordSet) ==
    IF recordSet.AliasTarget # {} THEN "alias"
    ELSE IF recordSet.ResourceRecords # {} THEN "literals"
    ELSE "neither"

\* the record sets of the zone the outer loop stands at (line 91)
CurrentRecordSets == The(CurrentZone.recordSets)
CurrentRecordSet == CurrentRecordSets[ri]

InRecordSet ==
    /\ pc = "findRecord"
    /\ zi <= Len(hostedZones)
    /\ ri <= Len(CurrentRecordSets)

\* one call of _evaluateRecord and the push that depends on it
Evaluate(recordType, value, valueIndex) ==
    LET matched == _evaluateRecord(value)
        entry   == _createResultEntry(CurrentZone, recordType,
                                      CurrentRecordSet.Name, value)
    IN  /\ recordValue' = { value }
        /\ verdict' = { matched }
        /\ evaluations' = Append(evaluations,
                                 [zone |-> zi, recordSet |-> ri,
                                  valueIndex |-> valueIndex,
                                  value |-> value, matched |-> matched])
        /\ IF matched
           THEN /\ matchingRecords' = Push(matchingRecords, entry)
                /\ rowSrc' = Append(rowSrc, << zi, ri, valueIndex >>)
           ELSE UNCHANGED << matchingRecords, rowSrc >>

\* lines 19-22: every zone has been given its record sets;
\* _getRecordSetsForZones returns and run calls _findRecord
GetRecordSetsForZonesReturn ==
    /\ pc = "getRecordSetsForZones"
    /\ zi = Len(hostedZones)
    /\ pc' = "findRecord"
    /\ zi' = 1
    /\ ri' = 1
    /\ vi' = 1
    /\ matchingRecords' = << >>
    /\ stream' = << >>
    /\ apiCalls' = 0
    /\ UNCHANGED << options, account, heap, hostedZones, marker, inflight,
                    recordSets, startRecord, recordValue, verdict, printed,
                    apiErrors, writes, evaluations, rowSrc >>

\* (variant: an alias row carries the record set's Type)
FindRecordAliasTyped ==
    /\ InRecordSet
    /\ Branch(CurrentRecordSet) = "alias"
    /\ Evaluate(CurrentRecordSet.Type,
                The(CurrentRecordSet.AliasTarget).DNSName, 0)
    /\ ri' = ri + 1
    /\ UNCHANGED << options, account, pc, heap, hostedZones, marker, inflight,
                    zi, recordSets, startRecord, vi, printed, stream, apiCalls,
                    apiErrors, writes >>

\* lines 92-97: a record set with an AliasTarget
FindRecordAlias ==
    /\ InRecordSet
    /\ Branch(CurrentRecordSet) = "alias"
    /\ Evaluate("Alias", The(CurrentRecordSet.AliasTarget).DNSName, 0)
    /\ ri' = ri + 1
    /\ UNCHANGED << options, account, pc, heap, hostedZones, marker, inflight,
                    zi, recordSets, startRecord, vi, printed, stream, apiCalls,
                    apiErrors, writes >>

\* lines 98-105: the next value of a record set with ResourceRecords
FindRecordValue ==
    /\ InRecordSet
    /\ Branch(CurrentRecordSet) = "literals"
    /\ vi <= Len(The(CurrentRecordSet.ResourceRecords))
    /\ Evaluate(CurrentRecordSet.Type,
                The(CurrentRecordSet.ResourceRecords)[vi].Value, vi)
    /\ vi' = vi + 1
    /\ UNCHANGED << options, account, pc, heap, hostedZones, marker, inflight,
                    zi, recordSets, startRecord, ri, printed, stream, apiCalls,
                    apiErrors, writes >>

\* (variant: the loop over the values ends after the first value)
FindRecordValuesEndEarly ==
    /\ InRecordSet
    /\ Branch(CurrentRecordSet) = "literals"
    /\ vi > 1
    /\ ri' = ri + 1
    /\ vi' = 1
    /\ UNCHANGED << options, account, pc, heap, hostedZones, marker, inflight,
                    zi, recordSets, startRecord, matchingRecords, recordValue,
                    verdict, printed, stream, apiCalls, apiErrors, writes,
                    evaluations, rowSrc >>

\* line 99: the loop over the values ends
FindRecordValuesEnd ==
    /\ InRecordSet
    /\ Branch(CurrentRecordSet) = "literals"
    /\ vi > Len(The(CurrentRecordSet.ResourceRecords))
    /\ ri' = ri + 1
    /\ vi' = 1
    /\ UNCHANGED << options, account, pc, heap, hostedZones, marker, inflight,
                    zi, recordSets, startRecord, matchingRecords, recordValue,
                    verdict, printed, stream, apiCalls, apiErrors, writes,
                    evaluations, rowSrc >>

\* (variant: a record set with neither is an error that ends the run)
FindRecordNeitherThrows ==
    /\ InRecordSet
    /\ Branch(CurrentRecordSet) = "neither"
    /\ pc' = "rejected"
    /\ UNCHANGED << options, account, heap, hostedZones, marker, inflight, zi,
                    recordSets, startRecord, ri, vi, matchingRecords,
                    recordValue, verdict, printed, stream, apiCalls, apiErrors,
                    writes, evaluations, rowSrc >>

\* lines 106-108: neither an AliasTarget nor ResourceRecords: log only
FindRecordNeither ==
    /\ InRecordSet
    /\ Branch(CurrentRecordSet) = "neither"
    /\ ri' = ri + 1
    /\ UNCHANGED << options, account, pc, heap, hostedZones, marker, inflight,
                    zi, recordSets, startRecord, vi, matchingRecords,
                    recordValue, verdict, printed, stream, apiCalls, apiErrors,
                    writes, evaluations, rowSrc >>

\* (variant: a zone's recordSets is deleted once it has been searched)
FindRecordZoneEndFreed ==
    /\ pc = "findRecord"
    /\ zi <= Len(hostedZones)
    /\ ri > Len(CurrentRecordSets)
    /\ zi' = zi + 1
    /\ ri' = 1
    /\ heap' = [heap EXCEPT ![CurrentRef].recordSets = { << >> }]
    /\ UNCHANGED << options, account, pc, hostedZones, marker, inflight,
                    recordSets, startRecord, vi, matchingRecords, recordValue,
                    verdict, printed, stream, apiCalls, apiErrors, writes,
                    evaluations, rowSrc >>

\* line 91: the loop over the record sets of a zone ends
FindRecordZoneEnd ==
    /\ pc = "findRecord"
    /\ zi <= Len(hostedZones)
    /\ ri > Len(CurrentRecordSets)
    /\ zi' = zi + 1
    /\ ri' = 1
    /\ UNCHANGED << options, account, pc, heap, hostedZones, marker, inflight,
                    recordSets, startRecord, vi, matchingRecords, recordValue,
                    verdict, printed, stream, apiCalls, apiErrors, writes,
                    evaluations, rowSrc >>

\* lines 111 and 22-23: _findRecord returns; run calls _printResult
FindRecordReturn ==
    /\ pc = "findRecord"
    /\ zi > Len(hostedZones)
    /\ pc' = "printResult"
    /\ UNCHANGED << options, account, heap, hostedZones, marker, inflight, zi,
                    recordSets, startRecord, ri, vi, matchingRecords,
                    recordValue, verdict, printed, stream, apiCalls, apiErrors,
                    writes, evaluations, rowSrc >>

\* lines 131-154: the rows are handed to the output
PrintResult ==
    /\ pc = "printResult"
    /\ printed' = { matchingRecords }
    /\ pc' = "done"
    /\ UNCHANGED << options, account, heap, hostedZones, marker, inflight, zi,
                    recordSets, startRecord, ri, vi, matchingRecords,
                    recordValue, verdict, stream, apiCalls, apiErrors, writes,
                    evaluations, rowSrc >>

---------------------------------------------------------------------------
(* The run (lines 12-24).                                                  *)

\* nothing has been fetched, matched or printed
Fresh ==
    /\ heap = << >>
    /\ hostedZones = << >>
    /\ marker = {}
    /\ inflight = {}
    /\ zi = 0
    /\ recordSets = << >>
    /\ startRecord = {}
    /\ ri = 0
    /\ vi = 0
    /\ matchingRecords = << >>
    /\ verdict = {}
    /\ printed = {}
    /\ stream = << >>
    /\ apiCalls = 0
    /\ apiErrors = 0
    /\ writes = << >>
    /\ evaluations = << >>
    /\ rowSrc = << >>

Init ==
    /\ options \in MatchOptions
    /\ account = Account
    /\ pc = "listHostedZones"
    /\ recordValue = {}
    /\ Fresh

Next ==
    \/ ListHostedZonesSend
    \/ ListHostedZonesResponse
    \/ GetRecordSetsForZonesNext
    \/ ListResourceRecordSetsSend
    \/ ListResourceRecordSetsResponse
    \/ ApiError
    \/ GetRecordSetsForZonesReturn
    \/ FindRecordAlias
    \/ FindRecordValue
    \/ FindRecordValuesEnd
    \/ FindRecordNeither
    \/ FindRecordZoneEnd
    \/ FindRecordReturn
    \/ PrintResult

Spec == Init /\ [][Next]_vars

\* the steps that are not a failure of the API: the program's own steps
\* and the arrival of a response
Progress ==
    \/ ListHostedZonesSend
    \/ ListHostedZonesResponse
    \/ GetRecordSetsForZonesNext
    \/ ListResourceRecordSetsSend
    \/ ListResourceRecordSetsResponse
    \/ GetRecordSetsForZonesReturn
    \/ FindRecordAlias
    \/ FindRecordValue
    \/ FindRecordValuesEnd
    \/ FindRecordNeither
    \/ FindRecordZoneEnd
    \/ FindRecordReturn
    \/ PrintResult

\* the account of the fair run: one zone entry, which the API may deliver
\* more than once, and record sets of every shape
LiveAccount ==
    [zones |-> { z \in RawZones : z.Name = "a.example." },
     recordSets |-> RecordSetEntries]

\* the fair run compares by equality: which steps follow which does not
\* depend on how _evaluateRecord compares
InitLive ==
    /\ options \in { o \in MatchOptions : o.match = "equality" }
    /\ account = LiveAccount
    /\ pc = "listHostedZones"
    /\ recordValue = {}
    /\ Fresh

\* the run with its scheduling: synchronous code runs on, the continuation
\* of an await runs once its promise is settled, and every call is
\* answered, by a response unless it fails
FairSpec == InitLive /\ [][Next]_vars /\ WF_vars(Progress)

---------------------------------------------------------------------------
(* _evaluateRecord on its own: one call, for any options and any value.    *)

ExampleCom ==
    << "e", "x", "a", "m", "p", "l", "e", ".", "c", "o", "m" >>
ExampleComDot ==
    << "e", "x", "a", "m", "p", "l", "e", ".", "c", "o", "m", "." >>
\* 172
Pattern172 == << "1", "7", "2" >>
\* ^172(\.[0-9]{1,3}){3}$
PatternAnchored ==
    << "^", "1", "7", "2", "(", "\\", ".", "[", "0", "-", "9", "]",
       "{", "1", ",", "3", "}", ")", "{", "3", "}", "$" >>
\* ^172 and 172$
PatternHead == << "^", "1", "7", "2" >>
PatternTail == << "1", "7", "2", "$" >>
\* 172.16.0.1 and 10.172.16.0.1
Addr172 == << "1", "7", "2", ".", "1", "6", ".", "0", ".", "1" >>
Addr10  == << "1", "0", ".", "1", "7", "2", ".", "1", "6", ".", "0", ".", "1" >>
\* 10.0.0.172
AddrTail == << "1", "0", ".", "0", ".", "0", ".", "1", "7", "2" >>

EvalRecords ==
    { ExampleCom, ExampleComDot, Pattern172, PatternAnchored, PatternHead,
      PatternTail, ValA, ValADot }

EvalValues ==
    { ExampleCom, ExampleComDot, Addr172, Addr10, AddrTail, Pattern172,
      WithDot(Pattern172), ValA, ValADot, ValBA, << >> }

InitEval ==
    /\ options \in [match : {"equality", "regex"}, record : EvalRecords]
    /\ account = Account
    /\ pc = "evaluateRecord"
    /\ recordValue \in { {v} : v \in EvalValues }
    /\ Fresh

EvaluateRecord ==
    /\ pc = "evaluateRecord"
    /\ verdict' = { _evaluateRecord(The(recordValue)) }
    /\ pc' = "evaluated"
    /\ UNCHANGED << options, account, heap, hostedZones, marker, inflight, zi,
                    recordSets, startRecord, ri, vi, matchingRecords,
                    recordValue, printed, stream, apiCalls, apiErrors, writes,
                    evaluations, rowSrc >>

NextEval == EvaluateRecord

SpecEval == InitEval /\ [][NextEval]_vars

---------------------------------------------------------------------------
(* The run on the account of the worked example: one zone example.com.    *)
(* holding one A record set foo.example.com.                               *)

Addr1234 == << "1", ".", "2", ".", "3", ".", "4" >>
Addr5678 == << "5", ".", "6", ".", "7", ".", "8" >>
Addr9999 == << "9", ".", "9", ".", "9", ".", "9" >>

\* the zone as the API delivers it, and as a bare id
ZoneZ1Path ==
    [Id   |-> << "/", "h", "o", "s", "t", "e", "d", "z", "o", "n", "e", "/",
                 "Z", "1" >>,
     Name |-> "example.com."]
ZoneZ1 == [Id |-> << "Z", "1" >>, Name |-> "example.com."]

RSFoo ==
    [Name |-> "foo.example.com.", Type |-> "A",
     AliasTarget |-> {},
     ResourceRecords |-> { << [Value |-> Addr1234], [Value |-> Addr5678] >> }]

ExampleAccount == [zones |-> { ZoneZ1Path, ZoneZ1 }, recordSets |-> { RSFoo }]

ExampleOptions ==
    { [match |-> "equality", record |-> Addr5678],
      [match |-> "equality", record |-> Addr9999] }

InitExample ==
    /\ options \in ExampleOptions
    /\ account = ExampleAccount
    /\ pc = "listHostedZones"
    /\ recordValue = {}
    /\ Fresh

\* every record set of this account has ResourceRecords and no AliasTarget:
\* lines 92-97 and 106-108 are never reached
NextExample ==
    \/ ListHostedZonesSend
    \/ ListHostedZonesResponse
    \/ GetRecordSetsForZonesNext
    \/ ListResourceRecordSetsSend
    \/ ListResourceRecordSetsResponse
    \/ ApiError
    \/ GetRecordSetsForZonesReturn
    \/ FindRecordValue
    \/ FindRecordValuesEnd
    \/ FindRecordZoneEnd
    \/ FindRecordReturn
    \/ PrintResult

SpecExample == InitExample /\ [][NextExample]_vars

---------------------------------------------------------------------------
(* Properties.                                                             *)

\* _listHostedZones has just returned its Set to run (line 16); stream
\* holds the list-zones exchanges
ZonesReturned == pc = "getRecordSetsForZones" /\ zi = 0

\* the zone objects of the Set
ZonesOf(set) == { heap[set[i]] : i \in 1..Len(set) }

\* a zone object stands for an entry of a list-zones page
SameZone(zone, entry) ==
    zone.Name = entry.Name /\ zone.Id = NormalizeId(entry.Id)

\* C1 (pagination completeness): when _listHostedZones returns, it has been
\* served K >= 1 pages, all but the last truncated, it has issued exactly K
\* calls, and the returned collection holds every zone of every page and no
\* zone that was on none.
C1_PaginationComplete ==
    ZonesReturned =>
        LET K       == Len(stream)
            pages   == [n \in 1..K |-> stream[n].response.HostedZones]
            entries == Range(Flatten(pages))
        IN  /\ K >= 1
            /\ \A n \in 1..(K - 1) : stream[n].response.IsTruncated
            /\ ~ stream[K].response.IsTruncated
            /\ apiCalls = K
            /\ \A e \in entries : \E z \in ZonesOf(hostedZones) : SameZone(z, e)
            /\ \A z \in ZonesOf(hostedZones) : \E e \in entries : SameZone(z, e)

\* two pages, a different zone on each, both returned
C1_Witness ==
    /\ ZonesReturned
    /\ Len(stream) = 2
    /\ Len(stream[1].response.HostedZones) = 1
    /\ Len(stream[2].response.HostedZones) = 1
    /\ stream[1].response.HostedZones # stream[2].response.HostedZones
    /\ Cardinality(ZonesOf(hostedZones)) = 2

\* C2 (deduplication by normalized id): no two zones of the collection
\* _listHostedZones returns share an id.
C2_NoDuplicateIds ==
    ZonesReturned =>
        \A i, j \in 1..Len(hostedZones) :
            i # j => heap[hostedZones[i]].Id # heap[hostedZones[j]].Id

\* the requests of the stream in progress, the one in flight included
StreamRequests ==
    [n \in 1..Len(stream) |-> stream[n].request]
    \o (IF inflight = {} THEN << >> ELSE << The(inflight) >>)

\* the start cursor a request carries
CursorOf(request) ==
    IF request.op = "ListHostedZones"
    THEN << request.params.Marker >>
    ELSE << request.params.StartRecordName, request.params.StartRecordType,
            request.params.StartRecordIdentifier >>

\* the next cursor a response of the same operation returns
NextCursorOf(op, response) ==
    IF op = "ListHostedZones"
    THEN << response.NextMarker >>
    ELSE << response.Next.NextRecordName, response.Next.NextRecordType,
            response.Next.NextRecordIdentifier >>

NoCursor(op) == IF op = "ListHostedZones" THEN << {} >> ELSE << {}, {}, {} >>

\* C3 (cursor threading): in every pagination stream the first request
\* carries no cursor and request N+1 carries exactly the next cursor of
\* response N of the same stream (same operation, same zone); a request is
\* issued only when every earlier request of the stream has been answered.
C3_CursorThreading ==
    LET requests == StreamRequests
    IN  /\ \A n \in 1..Len(requests) :
              /\ requests[n].op = requests[1].op
              /\ requests[n].op = "ListResourceRecordSets" =>
                    requests[n].params.HostedZoneId = CurrentZone.Id
              /\ CursorOf(requests[n]) =
                    IF n = 1 THEN NoCursor(requests[n].op)
                    ELSE NextCursorOf(requests[n].op, stream[n - 1].response)
        /\ apiCalls = Len(requests) + apiErrors

\* the request for a zone's second page is in flight and carries the whole
\* triple of the first response
C3_Witness ==
    /\ inflight # {}
    /\ Len(stream) = 1
    /\ The(inflight).op = "ListResourceRecordSets"
    /\ The(inflight).params.StartRecordName = {"n2"}
    /\ The(inflight).params.StartRecordType = {"CNAME"}
    /\ The(inflight).params.StartRecordIdentifier = {"w1"}

\* C4 (fail-fast on ApiError): once a call has failed, the run is over:
\* the failed call was the last call issued (no retry, no call for another
\* page or zone, nothing in flight), _findRecord has evaluated nothing and
\* produced no row, and _printResult has not run.
C4_FailFast ==
    apiErrors > 0 =>
        /\ apiErrors = 1
        /\ pc = "rejected"
        /\ inflight = {}
        /\ apiCalls = Len(stream) + 1
        /\ evaluations = << >>
        /\ matchingRecords = << >>
        /\ rowSrc = << >>
        /\ printed = {}

\* a list-record-sets call failed when one zone had its record sets and
\* another had none yet
C4_Witness ==
    /\ pc = "rejected"
    /\ apiErrors = 1
    /\ Len(hostedZones) = 2
    /\ heap[hostedZones[1]].recordSets # {}
    /\ The(heap[hostedZones[1]].recordSets) # << >>
    /\ heap[hostedZones[2]].recordSets = {}
    /\ printed = {}

\* a call of _getRecordSetsForZone has just returned and line 57 has
\* assigned its result; stream holds the exchanges of that zone
RecordSetsReturned == pc = "getRecordSetsForZones" /\ zi >= 1

\* the pages of record sets the stream has delivered, in order
RecordSetPages == [n \in 1..Len(stream) |-> stream[n].response.ResourceRecordSets]

\* C5 (populate before match): a zone's recordSets is assigned at most once;
\* while a zone's pages are being fetched it is absent (never a prefix);
\* the value assigned is the concatenation of the zone's pages up to and
\* including the first non-truncated one; while _findRecord runs (and
\* after) every zone of the Set has its recordSets, assigned exactly once.
C5_PopulateBeforeMatch ==
    /\ \A r \in 1..Len(heap) :
          /\ writes[r] <= 1
          /\ heap[r].recordSets = {} <=> writes[r] = 0
    /\ pc \in {"findRecord", "printResult", "done"} =>
          \A i \in 1..Len(hostedZones) :
              /\ heap[hostedZones[i]].recordSets # {}
              /\ writes[hostedZones[i]] = 1
    /\ pc = "getRecordSetsForZone" =>
          \A i \in 1..Len(hostedZones) :
              heap[hostedZones[i]].recordSets = {} <=> i >= zi
    /\ RecordSetsReturned =>
          /\ CurrentZone.recordSets = { Flatten(RecordSetPages) }
          /\ \A n \in 1..(Len(stream) - 1) : stream[n].response.IsTruncated
          /\ ~ stream[Len(stream)].response.IsTruncated
          /\ \A i \in 1..Len(hostedZones) :
                heap[hostedZones[i]].recordSets = {} <=> i > zi

\* _findRecord is running over two zones, one of which got its record sets
\* from several record sets
C5_Witness ==
    /\ pc = "findRecord"
    /\ Len(hostedZones) = 2
    /\ Len(The(heap[hostedZones[1]].recordSets)) = 2
    /\ Len(The(heap[hostedZones[2]].recordSets)) = 1
    /\ evaluations # << >>

\* C6 (record-set order and multiplicity): what _getRecordSetsForZone has
\* accumulated, and what it returns, is page 1 followed by page 2 ... in
\* response order, nothing dropped, reordered or deduplicated.
C6_RecordSetOrder ==
    /\ pc = "getRecordSetsForZone" => recordSets = Flatten(RecordSetPages)
    /\ RecordSetsReturned =>
          LET result == The(CurrentZone.recordSets)
          IN  /\ Len(result) = SumSeq([n \in 1..Len(stream) |-> Len(RecordSetPages[n])])
              /\ \A n \in 1..Len(stream) : \A k \in 1..Len(RecordSetPages[n]) :
                    result[SumSeq([m \in 1..(n - 1) |-> Len(RecordSetPages[m])]) + k]
                        = RecordSetPages[n][k]

\* the API returned the same record set on page 1 and on page 2, and the
\* zone's recordSets holds it twice
C6_Witness ==
    /\ RecordSetsReturned
    /\ Len(stream) = 2
    /\ RecordSetPages[1] = << RSLiterals >>
    /\ RecordSetPages[2] = << RSAlias, RSLiterals >>
    /\ The(CurrentZone.recordSets) = << RSLiterals, RSAlias, RSLiterals >>

\* C7 (equality match, one-directional dot handling): with match =
\* equality, a value matches the target exactly when it is the target or
\* the target followed by "."; "example.com" matches "example.com" and
\* "example.com.", "example.com." matches "example.com." and not
\* "example.com".
C7_EqualityMatch ==
    (pc = "evaluated" /\ options.match = "equality") =>
        LET t == options.record
            c == The(recordValue)
        IN  /\ verdict = { c = t \/ c = t \o << "." >> }
            /\ (t = ExampleCom /\ c \in {ExampleCom, ExampleComDot})
                  => verdict = {TRUE}
            /\ (t = ExampleComDot /\ c = ExampleComDot) => verdict = {TRUE}
            /\ (t = ExampleComDot /\ c = ExampleCom) => verdict = {FALSE}

\* target "example.com" has been tried on "example.com." and matched
C7_Witness ==
    /\ pc = "evaluated"
    /\ options = [match |-> "equality", record |-> ExampleCom]
    /\ recordValue = { ExampleComDot }
    /\ verdict = {TRUE}

\* the record sets of the zone at position z of the Set
RecordSetsAt(z) == The(heap[hostedZones[z]].recordSets)

\* _findRecord is past record set r of zone z
Processed(z, r) ==
    \/ pc \in {"printResult", "done"}
    \/ pc = "findRecord" /\ (z < zi \/ (z = zi /\ r < ri))

\* the calls of _evaluateRecord made for record set r of zone z
EvaluationsOf(z, r) ==
    LET Here(e) == e.zone = z /\ e.recordSet = r
    IN  SelectSeq(evaluations, Here)

\* the rows pushed for record set r of zone z
RowsOf(z, r) ==
    LET Here(src) == src[1] = z /\ src[2] = r
    IN  SelectSeq(rowSrc, Here)

\* C8 (alias vs literal exclusivity): a record set with an alias target is
\* evaluated once, against the alias DNS name, and gives at most one row,
\* whatever literal values it also carries; a record set without alias
\* target and with N literal values is evaluated once per value, in order,
\* and gives one row per matching value (0..N rows); a record set with
\* neither is not evaluated.
C8_AliasLiteralExclusive ==
    /\ Len(matchingRecords) = Len(rowSrc)
    /\ \A z \in 1..Len(hostedZones) :
          heap[hostedZones[z]].recordSets # {} =>
              \A r \in 1..Len(RecordSetsAt(z)) :
                  Processed(z, r) =>
                      LET rs   == RecordSetsAt(z)[r]
                          evs  == EvaluationsOf(z, r)
                          rows == RowsOf(z, r)
                          Matched(e) == e.matched
                      IN  IF rs.AliasTarget # {}
                          THEN /\ Len(evs) = 1
                               /\ evs[1].value = The(rs.AliasTarget).DNSName
                               /\ Len(rows) = (IF evs[1].matched THEN 1 ELSE 0)
                          ELSE IF rs.ResourceRecords # {}
                          THEN LET values == The(rs.ResourceRecords)
                               IN  /\ Len(evs) = Len(values)
                                   /\ \A k \in 1..Len(values) :
                                         evs[k].value = values[k].Value
                                   /\ Len(rows) = Len(SelectSeq(evs, Matched))
                                   /\ Len(rows) <= Len(values)
                          ELSE /\ evs = << >>
                               /\ rows = << >>

\* a record set whose alias name and whose stray literal value both match
\* the target has been processed and has given one row
C8_Witness ==
    /\ options = [match |-> "equality", record |-> ValA]
    /\ pc = "findRecord"
    /\ Len(hostedZones) >= 1
    /\ \E r \in 1..Len(RecordSetsAt(1)) :
          /\ Processed(1, r)
          /\ RecordSetsAt(1)[r] = RSAlias
          /\ _evaluateRecord(The(RSAlias.ResourceRecords)[1].Value)
          /\ Len(RowsOf(1, r)) = 1

\* (zone, record set, value) positions in the order of the three loops
LexLess(a, b) ==
    \/ a[1] < b[1]
    \/ a[1] = b[1] /\ a[2] < b[2]
    \/ a[1] = b[1] /\ a[2] = b[2] /\ a[3] < b[3]

\* the value at a position: the alias name (value index 0) or a literal
ValueAt(src) ==
    LET rs == RecordSetsAt(src[1])[src[2]]
    IN  IF src[3] = 0 THEN The(rs.AliasTarget).DNSName
        ELSE The(rs.ResourceRecords)[src[3]].Value

\* every position of the aggregate that holds a candidate value, in order
PositionsOf(z, r) ==
    LET rs == RecordSetsAt(z)[r]
    IN  IF rs.AliasTarget # {} THEN << << z, r, 0 >> >>
        ELSE IF rs.ResourceRecords # {}
        THEN [k \in 1..Len(The(rs.ResourceRecords)) |-> << z, r, k >>]
        ELSE << >>
Positions ==
    Flatten([z \in 1..Len(hostedZones) |->
                Flatten([r \in 1..Len(RecordSetsAt(z)) |-> PositionsOf(z, r)])])

\* C9 (deterministic output order): the rows of matchingRecords are in
\* strictly increasing (zone index, record-set index, value index) order,
\* each row is the row of its position, and the returned sequence is the
\* matching positions of the aggregate in that order: a function of the
\* aggregate and the options.
C9_OutputOrder ==
    /\ Len(matchingRecords) = Len(rowSrc)
    /\ \A k, l \in 1..Len(rowSrc) : k < l => LexLess(rowSrc[k], rowSrc[l])
    /\ \A k \in 1..Len(rowSrc) :
          LET zone == heap[hostedZones[rowSrc[k][1]]]
              rs   == RecordSetsAt(rowSrc[k][1])[rowSrc[k][2]]
              row  == matchingRecords[k]
          IN  /\ row.hostedZoneId = zone.Id
              /\ row.hostedZoneName = zone.Name
              /\ row.recordName = rs.Name
              /\ row.recordValue = ValueAt(rowSrc[k])
    /\ pc \in {"printResult", "done"} =>
          LET Matches(src) == _evaluateRecord(ValueAt(src))
          IN  rowSrc = SelectSeq(Positions, Matches)

\* _findRecord has returned rows of two zones, of two record sets of one
\* zone and of two values of one record set
C9_Witness ==
    /\ pc = "printResult"
    /\ \E k, l \in 1..Len(rowSrc) : rowSrc[k][1] # rowSrc[l][1]
    /\ \E k, l \in 1..Len(rowSrc) :
          rowSrc[k][1] = rowSrc[l][1] /\ rowSrc[k][2] # rowSrc[l][2]
    /\ \E k, l \in 1..Len(rowSrc) :
          /\ rowSrc[k][1] = rowSrc[l][1]
          /\ rowSrc[k][2] = rowSrc[l][2]
          /\ rowSrc[k][3] # rowSrc[l][3]
    /\ heap[hostedZones[1]].Id # heap[hostedZones[2]].Id

\* pattern characters with a special meaning
MetaChars == { "^", "$", ".", "\\", "[", "]", "(", ")", "*", "+", "?", "{", "}" }

\* the pattern is literal characters and "." only
IsPlain(p) == \A i \in 1..Len(p) : p[i] = "." \/ p[i] \notin MetaChars

\* the window of c that starts at i agrees with the plain pattern p
PlainAt(p, c, i) ==
    /\ i + Len(p) - 1 <= Len(c)
    /\ \A k \in 1..Len(p) : p[k] = "." \/ c[i + k - 1] = p[k]

\* C10 (regex match is a search): with match = regex, a pattern without
\* anchors matches a value exactly when it matches some window of it; "^"
\* ties the window to the start and "$" to the end; "172" matches
\* "172.16.0.1" and "10.172.16.0.1"; ^172(\.[0-9]{1,3}){3}$ matches
\* "172.16.0.1" and does not match "10.172.16.0.1".
C10_RegexSearch ==
    (pc = "evaluated" /\ options.match = "regex") =>
        LET p == options.record
            c == The(recordValue)
        IN  /\ IsPlain(p) =>
                  verdict = { \E i \in 1..(Len(c) + 1) : PlainAt(p, c, i) }
            /\ p = PatternHead => verdict = { PlainAt(Pattern172, c, 1) }
            /\ p = PatternTail =>
                  verdict = { /\ Len(c) >= 3
                              /\ PlainAt(Pattern172, c, Len(c) - 2) }
            /\ (p = Pattern172 /\ c \in {Addr172, Addr10}) => verdict = {TRUE}
            /\ (p = PatternAnchored /\ c = Addr172) => verdict = {TRUE}
            /\ (p = PatternAnchored /\ c = Addr10) => verdict = {FALSE}

\* the pattern 172 has been tried on 10.172.16.0.1 and matched inside it
C10_Witness ==
    /\ pc = "evaluated"
    /\ options = [match |-> "regex", record |-> Pattern172]
    /\ recordValue = { Addr10 }
    /\ verdict = {TRUE}

\* the aggregate is the example's: the one zone Z1, example.com., holding
\* the one record set foo.example.com.
ExampleAggregate ==
    /\ Len(hostedZones) = 1
    /\ heap[hostedZones[1]] =
          [Id |-> << "Z", "1" >>, Name |-> "example.com.",
           recordSets |-> { << RSFoo >> }]

\* C11 (end-to-end scenario): for the account with the single zone Z1,
\* example.com., holding the single record set foo.example.com. of type A
\* with the values 1.2.3.4 and 5.6.7.8, enumeration and matching with
\* record 5.6.7.8 and match equality give exactly the one row (Z1,
\* example.com., A, foo.example.com., 5.6.7.8), and with record 9.9.9.9
\* give no row; _printResult is handed that result.
C11_EndToEnd ==
    (pc \in {"printResult", "done"} /\ ExampleAggregate) =>
        /\ options = [match |-> "equality", record |-> Addr5678] =>
              matchingRecords =
                  << [hostedZoneId   |-> << "Z", "1" >>,
                      hostedZoneName |-> "example.com.",
                      recordType     |-> "A",
                      recordName     |-> "foo.example.com.",
                      recordValue    |-> Addr5678] >>
        /\ options = [match |-> "equality", record |-> Addr9999] =>
              matchingRecords = << >>
        /\ pc = "done" => printed = { matchingRecords }

\* the run on the example account with record 5.6.7.8 is over and has
\* printed one row
C11_Witness ==
    /\ pc = "done"
    /\ ExampleAggregate
    /\ options.record = Addr5678
    /\ Len(matchingRecords) = 1
    /\ printed = { matchingRecords }

\* stored is delivered without everything up to and including its last "/"
IsBareTokenOf(stored, delivered) ==
    LET n == Len(delivered) - Len(stored)
    IN  /\ n >= 0
        /\ "/" \notin Range(stored)
        /\ \A i \in 1..Len(stored) : stored[i] = delivered[n + i]
        /\ n > 0 => delivered[n] = "/"

\* C12 (identifier normalization): every zone object holds an id without
\* "/" ("/hostedzone/Z1" becomes "Z1"), and normalizing that id again
\* leaves it as it is; a zone object gets its id in the step that receives
\* the list-zones page it is on (the id is the bare token of the id
\* delivered), and no step ever changes the id of an existing zone object.
C12_IdNormalized ==
    /\ [](/\ \A r \in 1..Len(heap) :
                /\ "/" \notin Range(heap[r].Id)
                /\ NormalizeId(heap[r].Id) = heap[r].Id
          /\ NormalizeId(ZoneZ1Path.Id) = << "Z", "1" >>
          /\ NormalizeId(ZoneZ1.Id) = << "Z", "1" >>)
    /\ [][/\ Len(heap') >= Len(heap)
          /\ \A r \in 1..Len(heap) : heap'[r].Id = heap[r].Id
          /\ Len(heap') > Len(heap) =>
                /\ pc = "listHostedZones"
                /\ Len(stream') = Len(stream) + 1
                /\ LET page == stream'[Len(stream')].response.HostedZones
                   IN  /\ Len(heap') = Len(heap) + Len(page)
                       /\ \A i \in 1..Len(page) :
                             IsBareTokenOf(heap'[Len(heap) + i].Id, page[i].Id)
         ]_vars

\* the list-zones page delivered one path-qualified and one bare id; both
\* zones are held with bare ids while _findRecord runs
C12_Witness ==
    /\ pc = "findRecord"
    /\ Len(hostedZones) = 2
    /\ heap[hostedZones[1]].Id = << "A" >>
    /\ heap[hostedZones[2]].Id = << "B" >>
    /\ \E z \in account.zones : z.Id = << "/", "h", "/", "A" >>
    /\ evaluations # << >>

\* C13 (matching is read-only): from the call of _findRecord (line 22) on,
\* no step changes the aggregate: the Set holds the same zone objects in
\* the same order, and every zone object has the same Id, Name and
\* recordSets (every record set with the same Name, Type, AliasTarget and
\* ResourceRecords), whatever the options and whether or not rows are
\* pushed.
C13_MatchingReadOnly ==
    [][(pc \in {"findRecord", "printResult"} \/ pc' = "findRecord") =>
          /\ hostedZones' = hostedZones
          /\ heap' = heap
          /\ writes' = writes]_vars

\* _findRecord has gone through an aggregate of two zones with record sets
\* of every shape and has pushed rows
C13_Witness ==
    /\ pc = "printResult"
    /\ Len(hostedZones) = 2
    /\ matchingRecords # << >>
    /\ \E z \in 1..2 : RSNeither \in Range(RecordSetsAt(z))
    /\ \E z \in 1..2 : RSAlias \in Range(RecordSetsAt(z))
    /\ \E z \in 1..2 : RSLiterals \in Range(RecordSetsAt(z))

\* the record set has neither an AliasTarget nor ResourceRecords
IsAnomaly(recordSet) ==
    recordSet.AliasTarget = {} /\ recordSet.ResourceRecords = {}

\* the positions _evaluateRecord has been called for, in call order
EvaluatedPositions ==
    [k \in 1..Len(evaluations) |->
        << evaluations[k].zone, evaluations[k].recordSet,
           evaluations[k].valueIndex >>]

\* C14 (shape anomaly is non-fatal): the step of _findRecord that stands at
\* a record set with neither alias target nor literal values calls
\* _evaluateRecord for nothing, pushes no row, raises no error and moves on
\* to the next record set of the same zone; the run is rejected only by a
\* failed API call; and when _findRecord has returned, every candidate
\* value of every record set of every zone, those after an anomalous
\* record set included, has been evaluated and every matching one has its
\* row.
C14_ShapeAnomalyNonFatal ==
    /\ [][(/\ pc = "findRecord"
           /\ zi <= Len(hostedZones)
           /\ ri <= Len(RecordSetsAt(zi))
           /\ IsAnomaly(RecordSetsAt(zi)[ri])) =>
              /\ pc' = "findRecord"
              /\ zi' = zi
              /\ ri' = ri + 1
              /\ evaluations' = evaluations
              /\ matchingRecords' = matchingRecords
              /\ apiErrors' = apiErrors]_vars
    /\ [](pc = "rejected" => apiErrors = 1 /\ evaluations = << >>)
    /\ [](pc \in {"printResult", "done"} =>
             LET Matches(src) == _evaluateRecord(ValueAt(src))
             IN  /\ EvaluatedPositions = Positions
                 /\ rowSrc = SelectSeq(EvaluatedPositions, Matches)
                 /\ Len(matchingRecords) = Len(rowSrc)
                 /\ \A k \in 1..Len(rowSrc) :
                       matchingRecords[k].recordValue = ValueAt(rowSrc[k]))

\* the first record set of the first zone had neither; _findRecord has
\* returned with a row of the record set after it and a row of the zone
\* after it
C14_Witness ==
    /\ pc = "printResult"
    /\ apiErrors = 0
    /\ Len(hostedZones) = 2
    /\ Len(RecordSetsAt(1)) = 2
    /\ IsAnomaly(RecordSetsAt(1)[1])
    /\ \E k \in 1..Len(rowSrc) : rowSrc[k][1] = 1 /\ rowSrc[k][2] = 2
    /\ \E k \in 1..Len(rowSrc) : rowSrc[k][1] = 2

\* the last response of a non-empty stream log
LastResponse(log) == log[Len(log)].response

\* C15 (sequential phases, one outstanding call): at most one API call is
\* in flight, and a call is issued only when none is; a list-zones call is
\* in flight only in the list-zones phase, which ends with a non-truncated
\* page (or a failure) and is never entered again, and a list-record-sets
\* call only afterwards, for the zone the loop stands at, while every
\* earlier zone has its record sets and no later one has; the loop takes
\* the zones of the Set one by one, each once, and takes the next only
\* when the stream of the one before has returned its non-truncated page.
C15_Sequential ==
    /\ [](/\ Cardinality(inflight) <= 1
          /\ inflight # {} => pc \in {"listHostedZones", "getRecordSetsForZone"}
          /\ \A c \in inflight :
                IF pc = "listHostedZones" THEN c.op = "ListHostedZones"
                ELSE /\ c.op = "ListResourceRecordSets"
                     /\ c.params.HostedZoneId = CurrentZone.Id
          /\ pc = "getRecordSetsForZone" =>
                /\ zi \in 1..Len(hostedZones)
                /\ \A z \in 1..Len(hostedZones) :
                      heap[hostedZones[z]].recordSets # {} <=> z < zi
          /\ \A i, j \in 1..Len(hostedZones) :
                i # j => hostedZones[i] # hostedZones[j])
    /\ [][/\ inflight' \notin {inflight, {}} =>
                inflight = {} /\ apiCalls' = apiCalls + 1
          /\ pc # "listHostedZones" => pc' # "listHostedZones"
          /\ (pc = "listHostedZones" /\ pc' # pc) =>
                \/ pc' = "rejected"
                \/ /\ pc' = "getRecordSetsForZones"
                   /\ zi' = 0
                   /\ inflight' = {}
                   /\ ~ LastResponse(stream').IsTruncated
          /\ pc \in {"listHostedZones", "getRecordSetsForZones",
                     "getRecordSetsForZone"} =>
                \/ zi' = zi
                \/ zi' = zi + 1 /\ pc' = "getRecordSetsForZone"
                \/ pc' = "findRecord" /\ zi = Len(hostedZones)
          /\ (zi' # zi /\ pc' = "getRecordSetsForZone") =>
                /\ pc = "getRecordSetsForZones"
                /\ inflight = {}
                /\ stream' = << >>
                /\ stream # << >>
                /\ ~ LastResponse(stream).IsTruncated
                /\ heap[hostedZones[zi']].recordSets = {}
                /\ zi >= 1 => heap[hostedZones[zi]].recordSets # {}
         ]_vars

\* the first call for the second zone is in flight; the first zone has
\* been fetched to its end and holds its record sets
C15_Witness ==
    /\ pc = "getRecordSetsForZone"
    /\ zi = 2
    /\ stream = << >>
    /\ inflight # {}
    /\ The(inflight).params.HostedZoneId = heap[hostedZones[2]].Id
    /\ Len(The(heap[hostedZones[1]].recordSets)) = 2
    /\ heap[hostedZones[2]].recordSets = {}

\* C16 (termination): if no API call fails (every stream returning a
\* non-truncated page after at most MaxPages pages), the run finishes
\* aggregation, runs _findRecord and hands its result to _printResult;
\* in every stream log the first non-truncated response is the last
\* response: with it the enumeration has returned, nothing is in flight
\* and no further call has been issued, whatever NextMarker or
\* NextRecordName/Type/Identifier it carries.
C16_Termination ==
    /\ ([](apiErrors = 0) => <>(pc = "done" /\ printed = { matchingRecords }))
    /\ [](\A n \in 1..Len(stream) :
             ~ stream[n].response.IsTruncated =>
                 /\ n = Len(stream)
                 /\ pc = "getRecordSetsForZones"
                 /\ inflight = {}
                 /\ apiCalls = Len(stream))
    /\ [][(/\ stream # << >>
           /\ ~ LastResponse(stream).IsTruncated) =>
              /\ inflight' = {}
              /\ \/ stream' = << >>
                 \/ UNCHANGED << stream, apiCalls >>]_vars

\* no call failed, both streams of a two-zone account took two pages, and
\* the run has printed its result
C16_Witness ==
    /\ pc = "done"
    /\ apiErrors = 0
    /\ Len(hostedZones) = 2
    /\ printed = { matchingRecords }
    /\ \A z \in 1..2 : RecordSetsAt(z) # << >>

\* every request of a stream log names the zone with this id
RequestsName(log, id) ==
    \A n \in 1..Len(log) :
        /\ log[n].request.op = "ListResourceRecordSets"
        /\ log[n].request.params.HostedZoneId = id

\* the record sets a stream log has delivered, page after page
PagesOf(log) ==
    Flatten([n \in 1..Len(log) |-> log[n].response.ResourceRecordSets])

\* C17 (row attribution): while a zone's record sets are fetched, every
\* request names that zone's id and the accumulator holds the pages of
\* that zone's stream only (it is empty when the stream starts); a zone
\* object's recordSets is assigned only in the step that ends its own
\* stream, with the pages of that stream, and never changes afterwards;
\* every row carries the bare Id and the Name of the zone object at its
\* position, the Name of the record set at its position in that zone's
\* recordSets, and the value _evaluateRecord was called with and matched.
C17_RowAttribution ==
    /\ [](/\ pc = "getRecordSetsForZone" =>
                /\ RequestsName(stream, CurrentZone.Id)
                /\ \A c \in inflight : c.params.HostedZoneId = CurrentZone.Id
                /\ recordSets = PagesOf(stream)
                /\ CurrentZone.recordSets = {}
          /\ \A k \in 1..Len(matchingRecords) :
                LET src  == rowSrc[k]
                    zone == heap[hostedZones[src[1]]]
                    rs   == The(zone.recordSets)[src[2]]
                    row  == matchingRecords[k]
                IN  /\ row.hostedZoneId = zone.Id
                    /\ "/" \notin Range(row.hostedZoneId)
                    /\ row.hostedZoneName = zone.Name
                    /\ row.recordName = rs.Name
                    /\ \E e \in Range(evaluations) :
                          /\ << e.zone, e.recordSet, e.valueIndex >> = src
                          /\ e.matched
                          /\ e.value = row.recordValue
                          /\ e.value = ValueAt(src))
    /\ [][\A r \in 1..Len(heap) :
              heap'[r].recordSets # heap[r].recordSets =>
                  /\ pc = "getRecordSetsForZone"
                  /\ r = hostedZones[zi]
                  /\ heap[r].recordSets = {}
                  /\ RequestsName(stream', heap[r].Id)
                  /\ heap'[r].recordSets = { PagesOf(stream') }
                  /\ \A q \in 1..Len(heap) :
                        q # r => heap'[q].recordSets = heap[q].recordSets
         ]_vars

\* the run is over with a row of the second zone, from a record set that
\* only the second zone's stream returned; the two zones differ in Id and
\* Name
C17_Witness ==
    /\ pc = "done"
    /\ Len(hostedZones) = 2
    /\ heap[hostedZones[1]].Id # heap[hostedZones[2]].Id
    /\ heap[hostedZones[1]].Name # heap[hostedZones[2]].Name
    /\ RSAlias \notin Range(RecordSetsAt(1))
    /\ \E k \in 1..Len(rowSrc) :
          /\ rowSrc[k][1] = 2
          /\ RecordSetsAt(2)[rowSrc[k][2]] = RSAlias
          /\ matchingRecords[k].hostedZoneId = heap[hostedZones[2]].Id

=============================================================================
